---- MODULE Spec2Model ----
(***************************************************************************)
(* Model of the meters REST service (src/jusong_example/meters.go).        *)
(*                                                                         *)
(* The Store is the package-level slice `meters` of *Meter.  Pointers are  *)
(* modelled as addresses into `heap`, so that the aliasing between the     *)
(* Store, the request context and the request payload is kept.  Every      *)
(* request runs on its own goroutine: the MeterCtx middleware and the      *)
(* handler it calls are two steps of one client, and the steps of          *)
(* different clients interleave.  A handler body (decode, Bind and its     *)
(* db* call) is one step: the Store has no lock, and the interleavings     *)
(* considered are those between the resolution of a record by MeterCtx     *)
(* and the handler that uses it.                                           *)
(*                                                                         *)
(* `removed` is a history variable (the pointers dbRemoveMeter returned),  *)
(* `left` bounds the length of a run, and `last` records the step just     *)
(* taken with the response the client got.                                 *)
(*                                                                         *)
(* Go strings are sequences of one-character strings, so that              *)
(* strings.ToLower, fmt.Sprintf("%d") and time.ParseDuration are computed  *)
(* rather than assumed.                                                    *)
(***************************************************************************)
EXTENDS Integers, Sequences, FiniteSets, TLC

\* ---------------------------------------------------------------- bounds
\* Number of goroutines serving requests at the same time.
NumClients == 2
\* Number of requests the server accepts in one behaviour of Spec.
MaxRequests == 4
\* Number of requests the server accepts in one behaviour of SpecShort.
ShortRequests == 3
\* rand.Intn(100) is drawn from 0 .. RandN-1 instead of 0 .. 99.
RandN == 2

\* ------------------------------------------------------- program constants
\* dbNewMeter: rand.Intn(100)+10
RandBase == 10

\* ---------------------------------------------------------------- strings
Digits == <<"0", "1", "2", "3", "4", "5", "6", "7", "8", "9">>
Upper == <<"A", "B", "C", "D", "E", "F", "G", "H", "I", "J", "K", "L", "M",
           "N", "O", "P", "Q", "R", "S", "T", "U", "V", "W", "X", "Y", "Z">>
Lower == <<"a", "b", "c", "d", "e", "f", "g", "h", "i", "j", "k", "l", "m",
           "n", "o", "p", "q", "r", "s", "t", "u", "v", "w", "x", "y", "z">>

IsDigit(c) == \E i \in DOMAIN Digits : Digits[i] = c
DigitVal(c) == (CHOOSE i \in DOMAIN Digits : Digits[i] = c) - 1

LowerChar(c) ==
    IF \E i \in DOMAIN Upper : Upper[i] = c
    THEN Lower[CHOOSE i \in DOMAIN Upper : Upper[i] = c]
    ELSE c

\* strings.ToLower
ToLower(s) == [i \in DOMAIN s |-> LowerChar(s[i])]

\* fmt.Sprintf("%d", n) for n >= 0
RECURSIVE Itoa(_)
Itoa(n) == IF n < 10 THEN <<Digits[n + 1]>>
           ELSE Itoa(n \div 10) \o <<Digits[(n % 10) + 1]>>

\* ------------------------------------------------------ time.ParseDuration
\* Durations are counted in milliseconds.  Sign, fractions and the
\* sub-millisecond units are not part of the inputs considered.
UnitNames == {<<"m", "s">>, <<"s">>, <<"m">>, <<"h">>}
UnitMs(u) == IF u = <<"m", "s">> THEN 1
             ELSE IF u = <<"s">> THEN 1000
             ELSE IF u = <<"m">> THEN 60000
             ELSE 3600000

\* length of the longest prefix of s made of digits (digits = TRUE) or of
\* non-digits (digits = FALSE)
RECURSIVE PrefixLen(_, _)
PrefixLen(s, digits) ==
    IF s = <<>> \/ (IsDigit(Head(s)) # digits) THEN 0
    ELSE 1 + PrefixLen(Tail(s), digits)

RECURSIVE Atoi(_, _)
Atoi(s, acc) == IF s = <<>> THEN acc
                ELSE Atoi(Tail(s), acc * 10 + DigitVal(Head(s)))

RECURSIVE ParseGroups(_, _)
ParseGroups(s, d) ==
    IF s = <<>> THEN [err |-> FALSE, d |-> d]
    ELSE LET nd == PrefixLen(s, TRUE)
             rest == SubSeq(s, nd + 1, Len(s))
             nu == PrefixLen(rest, FALSE)
             unit == SubSeq(rest, 1, nu)
         IN  IF nd = 0 \/ nu = 0 \/ unit \notin UnitNames
             THEN [err |-> TRUE, d |-> 0]
             ELSE ParseGroups(SubSeq(rest, nu + 1, Len(rest)),
                              d + Atoi(SubSeq(s, 1, nd), 0) * UnitMs(unit))

ParseDuration(s) ==
    IF s = <<"0">> THEN [err |-> FALSE, d |-> 0]
    ELSE IF s = <<>> THEN [err |-> TRUE, d |-> 0]
    ELSE ParseGroups(s, 0)

\* ------------------------------------------------------------- data model
\* type Meter.  `duration` is the unexported parsed value (milliseconds).
Meter(id, user, project, conn, ouser, opass, dur, d, slug) ==
    [ID |-> id, UserID |-> user, ProjectName |-> project,
     OraConnectID |-> conn, OraUser |-> ouser, OraPassword |-> opass,
     Duration |-> dur, duration |-> d, Slug |-> slug]

\* the zero value of Meter, as allocated by the JSON decoder
ZeroMeter == Meter(<<>>, 0, <<>>, <<>>, <<>>, <<>>, <<>>, 0, <<>>)

Fixture(id, user, project, slug) ==
    Meter(id, user, project, <<>>, <<>>, <<>>, <<>>, 0, slug)

\* var meters = []*Meter{...}: the records the fixture pointers point to
Fixtures ==
    << Fixture(<<"1">>, 100, <<"H", "i">>, <<"h", "i">>),
       Fixture(<<"2">>, 200, <<"s", "u", "p">>, <<"s", "u", "p">>),
       Fixture(<<"3">>, 300, <<"a", "l", "o">>, <<"a", "l", "o">>),
       Fixture(<<"4">>, 400, <<"b", "o", "n", "j", "o", "u", "r">>,
               <<"b", "o", "n", "j", "o", "u", "r">>),
       Fixture(<<"5">>, 500, <<"w", "h", "a", "t", "s", " ", "u", "p">>,
               <<"w", "h", "a", "t", "s", "-", "u", "p">>) >>

\* ------------------------------------------------------------ request data
\* A JSON request body: every key is absent ({}) or present with one value.
JSON(id, user, project, conn, ouser, opass, dur, slug) ==
    [id |-> id, user_id |-> user, project |-> project, ora_conn |-> conn,
     ora_user |-> ouser, ora_password |-> opass, duration |-> dur,
     slug |-> slug]

NoBody == JSON({}, {}, {}, {}, {}, {}, {}, {})

\* keys of the body that decode into the embedded *Meter ("id" is shadowed
\* by MeterRequest.ProtectedID and never reaches Meter.ID)
HasMeterKey(b) ==
    \/ b.user_id # {} \/ b.project # {} \/ b.ora_conn # {}
    \/ b.ora_user # {} \/ b.ora_password # {} \/ b.duration # {}
    \/ b.slug # {}

Val(S) == CHOOSE v \in S : TRUE
Pick(S, old) == IF S = {} THEN old ELSE Val(S)

\* the bodies the clients post and put (those of the curl script, shortened)
Bodies ==
    { JSON({<<"1">>}, {}, {<<"X">>}, {}, {}, {}, {}, {<<"z">>}),
      JSON({}, {7}, {<<"H", "i">>}, {<<"u">>}, {}, {<<"P">>},
           {<<"1", "m">>}, {}),
      JSON({}, {}, {<<"B", "A", "D">>}, {<<"u">>}, {}, {<<"P">>},
           {<<"D", "1", "3", "9", "3">>}, {}),
      NoBody }

\* values of the {meterID} and {meterSlug} URL parameters ("" = absent)
IDInputs ==
    {<<>>, <<"2">>}
        \cup {Itoa(RandBase + n) : n \in 0 .. RandN - 1}
SlugInputs == {<<>>, <<"h", "i">>}

Handlers == {"GetMeter", "UpdateMeter", "DeleteMeter"}

\* what reaches MeterCtx, as <<meterID, meterSlug, next handler>>: PUT and
\* DELETE come with an ID only, GET with an ID or a slug; MeterCtx also
\* answers a GET when both parameters or neither are set
Requests ==
    {<<id, <<>>, h>> : id \in IDInputs \ {<<>>}, h \in Handlers}
        \cup {<<id, sl, "GetMeter">> : id \in IDInputs, sl \in SlugInputs}

Clients == 1 .. NumClients

\* ------------------------------------------------------------------ state
VARIABLES
    heap,     \* the Meter objects, indexed by address (a *Meter is an address)
    meters,   \* var meters []*Meter: the Store, a sequence of addresses
    removed,  \* addresses dbRemoveMeter has returned as removed
    pc,       \* per client: "idle", or the handler MeterCtx is about to call
    ctx,      \* per client: the *Meter put on the request context (0: none)
    left,     \* number of requests the server still accepts
    last      \* the last step taken and the response it wrote

vars == <<heap, meters, removed, pc, ctx, left, last>>

\* what render.Render marshals of a Meter (the exported fields)
Render(m) ==
    [id |-> m.ID, user_id |-> m.UserID, project |-> m.ProjectName,
     ora_conn |-> m.OraConnectID, ora_user |-> m.OraUser,
     ora_password |-> m.OraPassword, duration |-> m.Duration,
     slug |-> m.Slug]

Event(op, c, status, id, slug, next, req, body) ==
    [op |-> op, client |-> c, status |-> status, meterID |-> id,
     meterSlug |-> slug, next |-> next, req |-> req, body |-> body]

Min(S) == CHOOSE x \in S : \A y \in S : x <= y

\* the state of the process once main has started serving, with n requests
\* to come
Boot(n) ==
    /\ heap = Fixtures
    /\ meters = [i \in DOMAIN Fixtures |-> i]
    /\ removed = {}
    /\ pc = [c \in Clients |-> "idle"]
    /\ ctx = [c \in Clients |-> 0]
    /\ left = n
    /\ last = Event("boot", 0, "none", <<>>, <<>>, "none", NoBody, <<>>)

Init == Boot(MaxRequests)
InitShort == Boot(ShortRequests)

\* ------------------------------------------------------ persistence mocks
\* indices of the Store whose record has the given ID / slug
IdxByID(id) == {i \in DOMAIN meters : heap[meters[i]].ID = id}
IdxBySlug(slug) == {i \in DOMAIN meters : heap[meters[i]].Slug = slug}

\* dbGetMeter: the first record with that ID, 0 for (nil, "meter not found.")
dbGetMeter(id) ==
    LET S == IdxByID(id) IN IF S = {} THEN 0 ELSE meters[Min(S)]

\* dbGetMeterBySlug: the first record with that slug, 0 when there is none
dbGetMeterBySlug(slug) ==
    LET S == IdxBySlug(slug) IN IF S = {} THEN 0 ELSE meters[Min(S)]

\* dbNewMeter: meter.ID = Sprintf("%d", rand.Intn(100)+10), n the number
\* drawn, and the pointer a is appended to the Store
dbNewMeter(a, n) ==
    [id |-> Itoa(n + RandBase), meters |-> Append(meters, a)]

\* dbUpdateMeter: meters[i] = meter at the first i whose ID matches
dbUpdateMeter(id, a) ==
    LET S == IdxByID(id)
    IN  IF S = {}
        THEN [err |-> TRUE, meters |-> meters]
        ELSE [err |-> FALSE, meters |-> [meters EXCEPT ![Min(S)] = a]]

\* dbRemoveMeter with the hole filled by the last element instead of by
\* shifting the tail
dbRemoveMeterSwap(id) ==
    LET S == IdxByID(id)
        i == Min(S)
        n == Len(meters)
    IN  IF S = {}
        THEN [err |-> TRUE, meters |-> meters, meter |-> 0]
        ELSE [err |-> FALSE,
              meters |-> SubSeq([meters EXCEPT ![i] = meters[n]], 1, n - 1),
              meter |-> meters[i]]

\* dbRemoveMeter: append(meters[:i], meters[i+1:]...) at the first i whose
\* ID matches; returns the removed pointer
dbRemoveMeter(id) ==
    LET S == IdxByID(id)
        i == Min(S)
    IN  IF S = {}
        THEN [err |-> TRUE, meters |-> meters, meter |-> 0]
        ELSE [err |-> FALSE,
              meters |-> SubSeq(meters, 1, i - 1)
                             \o SubSeq(meters, i + 1, Len(meters)),
              meter |-> meters[i]]

\* ------------------------------------------------------- payload adapters
\* render.Bind's JSON decode into a MeterRequest whose embedded *Meter is m:
\* a key present in the body overwrites the field, an absent key leaves it
Decode(b, m) ==
    Meter(m.ID, Pick(b.user_id, m.UserID), Pick(b.project, m.ProjectName),
          Pick(b.ora_conn, m.OraConnectID), Pick(b.ora_user, m.OraUser),
          Pick(b.ora_password, m.OraPassword), Pick(b.duration, m.Duration),
          m.duration, Pick(b.slug, m.Slug))

\* Bind without the check of the error of time.ParseDuration
BindNoCheck(m) ==
    LET s1 == [m EXCEPT !.Slug = ToLower(m.ProjectName)]
        s2 == IF s1.Duration = <<>>
              THEN [s1 EXCEPT !.Duration = <<"1", "h">>] ELSE s1
        p  == ParseDuration(s2.Duration)
    IN  [meter |-> [s2 EXCEPT !.duration = p.d], err |-> FALSE]

\* MeterRequest.Bind, on the Meter the request embeds
Bind(m) ==
    LET s1 == [m EXCEPT !.Slug = ToLower(m.ProjectName)]
        s2 == IF s1.Duration = <<>>
              THEN [s1 EXCEPT !.Duration = <<"1", "h">>] ELSE s1
        p  == ParseDuration(s2.Duration)
    IN  [meter |-> [s2 EXCEPT !.duration = p.d], err |-> p.err]

RenderList == [i \in DOMAIN meters |-> Render(heap[meters[i]])]

\* --------------------------------------------------------------- handlers
\* a new request is served by the first idle client (the goroutines are
\* interchangeable)
Idle(c) == pc[c] = "idle" /\ \A d \in Clients : d < c => pc[d] # "idle"

ListMeters ==
    /\ left > 0
    /\ left' = left - 1
    /\ last' = Event("ListMeters", 0, "OK", <<>>, <<>>, "none", NoBody,
                     RenderList)
    /\ UNCHANGED <<heap, meters, removed, pc, ctx>>

SearchMeters ==
    /\ left > 0
    /\ left' = left - 1
    /\ last' = Event("SearchMeters", 0, "OK", <<>>, <<>>, "none", NoBody,
                     RenderList)
    /\ UNCHANGED <<heap, meters, removed, pc, ctx>>

\* the lookup of MeterCtx with the two parameters tried in the other order
MeterCtxLookupSlugFirst(id, slug) ==
    IF slug # <<>> THEN dbGetMeterBySlug(slug)
    ELSE IF id # <<>> THEN dbGetMeter(id)
    ELSE 0

\* the lookup of MeterCtx: by ID when the ID parameter is set, else by slug
\* when the slug parameter is set, else nothing
MeterCtxLookup(id, slug) ==
    IF id # <<>> THEN dbGetMeter(id)
    ELSE IF slug # <<>> THEN dbGetMeterBySlug(slug)
    ELSE 0

MeterCtx(c, id, slug, next) ==
    /\ left > 0
    /\ Idle(c)
    /\ left' = left - 1
    /\ LET a == MeterCtxLookup(id, slug)
       IN  IF a = 0
           THEN /\ last' = Event("MeterCtx", c, "NotFound", id, slug, next,
                                 NoBody, <<>>)
                /\ UNCHANGED <<pc, ctx>>
           ELSE /\ last' = Event("MeterCtx", c, "next", id, slug, next,
                                 NoBody, <<>>)
                /\ pc' = [pc EXCEPT ![c] = next]
                /\ ctx' = [ctx EXCEPT ![c] = a]
    /\ UNCHANGED <<heap, meters, removed>>

CreateMeter(b, n) ==
    /\ left > 0
    /\ left' = left - 1
    /\ IF ~HasMeterKey(b)
       THEN \* data.Meter stays nil and Bind dereferences it: the request panics
            /\ last' = Event("CreateMeter", 0, "Panic", <<>>, <<>>, "none", b,
                             <<>>)
            /\ UNCHANGED <<heap, meters>>
       ELSE LET bound == Bind(Decode(b, ZeroMeter))
                new == dbNewMeter(Len(heap) + 1, n)
                meter == [bound.meter EXCEPT !.ID = new.id]
            IN  IF bound.err
                THEN /\ last' = Event("CreateMeter", 0, "InvalidRequest",
                                      <<>>, <<>>, "none", b, <<>>)
                     /\ UNCHANGED <<heap, meters>>
                ELSE /\ heap' = Append(heap, meter)
                     /\ meters' = new.meters
                     /\ last' = Event("CreateMeter", 0, "Created", <<>>,
                                      <<>>, "none", b, <<Render(meter)>>)
    /\ UNCHANGED <<removed, pc, ctx>>

GetMeter(c) ==
    /\ pc[c] = "GetMeter"
    /\ last' = Event("GetMeter", c, "OK", heap[ctx[c]].ID, <<>>, "none",
                     NoBody, <<Render(heap[ctx[c]])>>)
    /\ pc' = [pc EXCEPT ![c] = "idle"]
    /\ ctx' = [ctx EXCEPT ![c] = 0]
    /\ UNCHANGED <<heap, meters, removed, left>>

\* the JSON decode and Bind write through the pointer taken from the context,
\* the result of dbUpdateMeter is dropped
UpdateMeter(c, b) ==
    /\ pc[c] = "UpdateMeter"
    /\ LET a == ctx[c]
           bound == Bind(Decode(b, heap[a]))
       IN  /\ heap' = [heap EXCEPT ![a] = bound.meter]
           /\ IF bound.err
              THEN /\ last' = Event("UpdateMeter", c, "InvalidRequest",
                                    heap[a].ID, <<>>, "none", b, <<>>)
                   /\ UNCHANGED meters
              ELSE /\ meters' = dbUpdateMeter(bound.meter.ID, a).meters
                   /\ last' = Event("UpdateMeter", c, "OK", heap[a].ID, <<>>,
                                    "none", b, <<Render(bound.meter)>>)
    /\ pc' = [pc EXCEPT ![c] = "idle"]
    /\ ctx' = [ctx EXCEPT ![c] = 0]
    /\ UNCHANGED <<removed, left>>

\* DeleteMeter with the error of dbRemoveMeter dropped, as UpdateMeter drops
\* that of dbUpdateMeter: the meter of the context is rendered
DeleteMeterNoCheck(c) ==
    /\ pc[c] = "DeleteMeter"
    /\ LET r == dbRemoveMeter(heap[ctx[c]].ID)
       IN  /\ meters' = r.meters
           /\ removed' = IF r.err THEN removed ELSE removed \cup {r.meter}
           /\ last' = Event("DeleteMeter", c, "OK", heap[ctx[c]].ID, <<>>,
                            "none", NoBody, <<Render(heap[ctx[c]])>>)
    /\ pc' = [pc EXCEPT ![c] = "idle"]
    /\ ctx' = [ctx EXCEPT ![c] = 0]
    /\ UNCHANGED <<heap, left>>

DeleteMeter(c) ==
    /\ pc[c] = "DeleteMeter"
    /\ LET r == dbRemoveMeter(heap[ctx[c]].ID)
       IN  IF r.err
           THEN /\ last' = Event("DeleteMeter", c, "InvalidRequest",
                                 heap[ctx[c]].ID, <<>>, "none", NoBody, <<>>)
                /\ UNCHANGED <<meters, removed>>
           ELSE /\ meters' = r.meters
                /\ removed' = removed \cup {r.meter}
                /\ last' = Event("DeleteMeter", c, "OK", heap[ctx[c]].ID,
                                 <<>>, "none", NoBody,
                                 <<Render(heap[r.meter])>>)
    /\ pc' = [pc EXCEPT ![c] = "idle"]
    /\ ctx' = [ctx EXCEPT ![c] = 0]
    /\ UNCHANGED <<heap, left>>

Next ==
    \/ ListMeters
    \/ SearchMeters
    \/ SearchMeters
    \/ \E c \in Clients, r \in Requests : MeterCtx(c, r[1], r[2], r[3])
    \/ \E b \in Bodies, n \in 0 .. RandN - 1 : CreateMeter(b, n)
    \/ \E c \in Clients : GetMeter(c)
    \/ \E c \in Clients, b \in Bodies : UpdateMeter(c, b)
    \/ \E c \in Clients : DeleteMeter(c)

Spec == Init /\ [][Next]_vars

\* the same server over a shorter run
SpecShort == InitShort /\ [][Next]_vars

\* the server when no client sends a PUT: creates, deletes and reads only
NextCD ==
    \/ ListMeters
    \/ SearchMeters
    \/ \E c \in Clients, r \in Requests :
           r[3] # "UpdateMeter" /\ MeterCtx(c, r[1], r[2], r[3])
    \/ \E b \in Bodies, n \in 0 .. RandN - 1 : CreateMeter(b, n)
    \/ \E c \in Clients : GetMeter(c)
    \/ \E c \in Clients : DeleteMeter(c)

SpecCD == Init /\ [][NextCD]_vars

\* ----------------------------------------------------------------- claims
\* C1: no two records of the Store have the same ID.
C1_IDUnique ==
    \A i, j \in DOMAIN meters :
        i # j => heap[meters[i]].ID # heap[meters[j]].ID

\* C2: with creates and deletes only, the Store holds exactly the records
\* that were allocated (fixtures and creates, addresses in insertion order)
\* and not removed, each once and in insertion order, and that is what
\* ListMeters answers.
C2_ListInsertionOrder ==
    /\ \A i, j \in DOMAIN meters : i < j => meters[i] < meters[j]
    /\ {meters[i] : i \in DOMAIN meters} = DOMAIN heap \ removed
    /\ last.op = "ListMeters" =>
           /\ Len(last.body) = Len(meters)
           /\ \A i \in DOMAIN meters : last.body[i] = Render(heap[meters[i]])

C2_Witness ==
    /\ last.op = "ListMeters"
    /\ Len(heap) > Len(Fixtures)
    /\ \E a \in removed : \E i, j \in DOMAIN meters :
           meters[i] < a /\ a < meters[j]

\* C3: a create with a project name and no duration, followed at once by a
\* GET of the ID it returned, resolves to the record just created, whose
\* slug is the lower-cased project name and whose duration is "1h".
C3_RoundTrip ==
    [][(/\ last.op = "CreateMeter" /\ last.status = "Created"
        /\ last.req.project # {} /\ last.req.duration = {}
        /\ last'.op = "MeterCtx" /\ last'.next = "GetMeter"
        /\ last'.meterID = last.body[1].id)
       => /\ pc'[last'.client] = "GetMeter"
          /\ ctx'[last'.client] = meters[Len(meters)]
          /\ heap'[ctx'[last'.client]].Slug = ToLower(Val(last.req.project))
          /\ heap'[ctx'[last'.client]].Duration = <<"1", "h">>]_vars

\* C4: a create whose duration does not parse answers Invalid-Request and
\* leaves the Store as it was.
C4_BadDurationCreate ==
    [][(/\ last'.op = "CreateMeter"
        /\ last'.req.duration # {}
        /\ ParseDuration(Val(last'.req.duration)).err)
       => /\ last'.status = "InvalidRequest"
          /\ meters' = meters
          /\ heap' = heap]_vars

C4_Witness ==
    /\ last.op = "CreateMeter"
    /\ last.req.duration = {<<"D", "1", "3", "9", "3">>}
    /\ last.status = "InvalidRequest"

\* C5: a delete of an ID that is not in the Store fails and leaves the Store
\* as it was: MeterCtx answers Not Found when the ID is missing at resolution,
\* DeleteMeter answers Invalid-Request when it went missing afterwards.
C5_DeleteMissing ==
    [][/\ (/\ last'.op = "MeterCtx" /\ last'.next = "DeleteMeter"
           /\ \A i \in DOMAIN meters : heap[meters[i]].ID # last'.meterID)
          => /\ last'.status = "NotFound"
             /\ pc'[last'.client] = "idle"
             /\ meters' = meters /\ heap' = heap /\ removed' = removed
       /\ (/\ last'.op = "DeleteMeter"
           /\ \A i \in DOMAIN meters : heap[meters[i]].ID # last'.meterID)
          => /\ last'.status = "InvalidRequest"
             /\ meters' = meters /\ heap' = heap /\ removed' = removed]_vars

C5_Witness ==
    /\ last.op = "DeleteMeter"
    /\ last.status = "InvalidRequest"
    /\ \A i \in DOMAIN meters : heap[meters[i]].ID # last.meterID

\* C6: after a successful update of a record of the Store with body B, the
\* same position holds a record with the same ID whose other fields are those
\* a fresh record bound from B alone would have.
C6_FullReplace ==
    [][(/\ last'.op = "UpdateMeter" /\ last'.status = "OK"
        /\ \E i \in DOMAIN meters : meters[i] = ctx[last'.client])
       => \E i \in DOMAIN meters :
              /\ meters[i] = ctx[last'.client]
              /\ i \in DOMAIN meters'
              /\ Render(heap'[meters'[i]]) =
                     Render([Bind(Decode(last'.req, ZeroMeter)).meter
                                EXCEPT !.ID = heap[meters[i]].ID])]_vars

\* C7: an update whose record was removed from the Store after MeterCtx
\* resolved it answers Not Found.
C7_UpdateAfterDelete ==
    [][(/\ last'.op = "UpdateMeter"
        /\ last'.status # "InvalidRequest"
        /\ \A i \in DOMAIN meters : heap[meters[i]].ID # last'.meterID)
       => last'.status = "NotFound"]_vars

\* C8: MeterCtx looks up by ID when the ID parameter is set and by slug only
\* when it is not; on a hit it calls the next handler with a matching record
\* of the Store on the context; with no parameter or no match it answers
\* Not Found and calls no handler.
C8_MeterCtx ==
    [][last'.op = "MeterCtx" =>
         LET c == last'.client
             id == last'.meterID
             sl == last'.meterSlug
             byID == {i \in DOMAIN meters : heap[meters[i]].ID = id}
             bySlug == {i \in DOMAIN meters : heap[meters[i]].Slug = sl}
             hits == IF id # <<>> THEN byID
                     ELSE IF sl # <<>> THEN bySlug ELSE {}
         IN  IF hits = {}
             THEN /\ last'.status = "NotFound"
                  /\ pc' = pc /\ ctx' = ctx /\ pc[c] = "idle"
             ELSE /\ pc'[c] = last'.next
                  /\ ctx'[c] \in {meters[i] : i \in hits}]_vars

C8_Witness ==
    /\ last.op = "MeterCtx"
    /\ last.meterID # <<>> /\ last.meterSlug # <<>>
    /\ pc[last.client] = last.next
    /\ heap[ctx[last.client]].ID = last.meterID
    /\ heap[ctx[last.client]].Slug # last.meterSlug
    /\ \E i \in DOMAIN meters : heap[meters[i]].Slug = last.meterSlug

\* C9: after a DELETE of an ID succeeds, a GET of that ID sent as the next
\* request answers Not Found.
C9_DeletedStaysDeleted ==
    [][(/\ last.op = "DeleteMeter" /\ last.status = "OK"
        /\ last'.op = "MeterCtx" /\ last'.next = "GetMeter"
        /\ last'.meterID = last.meterID)
       => last'.status = "NotFound"]_vars

\* C10: an update that fails at binding leaves the Store as it was: the same
\* records in the same order with the same field values.
C10_FailedUpdateKeepsStore ==
    [][(last'.op = "UpdateMeter" /\ last'.status = "InvalidRequest")
       => /\ meters' = meters
          /\ \A i \in DOMAIN meters : heap'[meters[i]] = heap[meters[i]]]_vars

====
